---- MODULE Spec2Model ----
(***************************************************************************)
(* Knowledge-vault ingestion and retrieval-augmented answering             *)
(* (services/vault.py, VaultIngestionService) together with the three      *)
(* FastAPI handlers of main.py that drive it.                              *)
(*                                                                         *)
(* Scheduling, as main.py sets it up:                                      *)
(*   - ingest_vault_document and query_vault_documents are `async def`     *)
(*     handlers whose bodies call the service synchronously and never      *)
(*     await: each runs on the event-loop thread from its first line to    *)
(*     its return, and the loop serves no other handler meanwhile;         *)
(*   - query_vault_documents_stream hands the synchronous generator        *)
(*     generate_answer_stream to StreamingResponse, which iterates it in   *)
(*     a worker thread: its steps interleave with whatever the event-loop  *)
(*     thread is doing.                                                    *)
(*                                                                         *)
(* The vector store is the LangChain FAISS store the service calls         *)
(* (load_local / add_texts / from_texts / save_local /                     *)
(* similarity_search_with_score).  It is modelled by what those calls do:  *)
(* the snapshot is the two files index.faiss (vectors) and index.pkl       *)
(* (documents and the position -> document mapping); save_local writes the *)
(* first and then the second, load_local reads the first and then the      *)
(* second.  vault.py as it stands never binds the names FAISS and          *)
(* self.embedder; the model takes them to be bound to that store and to    *)
(* the embedder built in __init__, which is what every call site assumes.  *)
(***************************************************************************)
EXTENDS Integers, Sequences, FiniteSets, TLC

\* ---------------------------------------------------------------- bounds
MaxIngests == 2      \* ingestion requests in one behaviour
MaxTopK == 2         \* largest top_k a query asks for
MaxFrags == 2        \* fragments the model stream delivers at most

\* ------------------------------------------------------- program constants
OverFetch == 3       \* k = top_k * 3

\* ----------------------------------------------------------- input domains
Users == {"u1", "u2"}
DocIds == {"d1", "d2"}
Titles == {"t1", "t2"}
Filenames == {"a.txt"}
\* Query strings; texts 1 and 2 embed to different vectors.
Queries == {1, 2}
\* An uploaded file is represented by the chunk texts its extracted text
\* splits into; <<>> is a file with no extractable text.
Contents == {<< >>, <<1>>, <<2, 3, 1>>}
\* The upload forms <<userId, documentId, title>>: a user's document, the
\* same document id under a second title, another user's document, and
\* another user reusing a document id.
Uploads == {<<"u1", "d1", "t1">>, <<"u1", "d1", "t2">>,
            <<"u2", "d2", "t2">>, <<"u2", "d1", "t1">>}
TopKs == 1..MaxTopK

IngestReqs == 1..MaxIngests
QueryReq == MaxIngests + 1
StreamReq == MaxIngests + 2
Reqs == 1..(MaxIngests + 2)
NoReq == 0

VARIABLES
  uploadDir,    \* upload directory: path -> [exists, data: content]
  indexFaiss,   \* file index.faiss: [exists, data: Seq of vectors]
  indexPkl,     \* file index.pkl:   [exists, data: Seq of documents]
  loop,         \* request whose handler occupies the event-loop thread
  pc,           \* position of each request
  args,         \* arguments of each request
  store,        \* the store each request loaded / is building
  chunks,       \* result of query_documents in each query
  citations,    \* citations list built by each query
  events,       \* events yielded so far by each stream
  result,       \* what each handler returned
  modelCalls,   \* chat.completions.create calls issued by each request
  modelOutcome, \* how the model call of each request went: none, ok, raised
  frags         \* model stream fragments consumed by each stream

vars == <<uploadDir, indexFaiss, indexPkl, loop, pc, args, store, chunks,
          citations, events, result, modelCalls, modelOutcome, frags>>

disk == <<uploadDir, indexFaiss, indexPkl>>
locals == <<chunks, citations, events, result, modelCalls, modelOutcome, frags>>
model == <<modelCalls, modelOutcome>>

\* ------------------------------------------------------------------ helpers
AbsentFile == [exists |-> FALSE, data |-> << >>]
NoStore == [present |-> FALSE, faiss |-> << >>, pkl |-> << >>]
NoArgs == [kind |-> "none", user_id |-> "-", document_id |-> "-", title |-> "-",
           filename |-> "-", content_type |-> "-", content |-> << >>,
           query |-> 0, top_k |-> 0, filePath |-> << >>]
NoResult == [tag |-> "none", answer |-> "-", chunks |-> << >>,
             citations |-> << >>, chunkCount |-> 0, tokens_used |-> "-",
             path |-> << >>, content |-> << >>]

\* Strings that are put together or taken apart are sequences of pieces:
\* "d1_x" is d1, _, x and "x_a.txt" is x, _, a, .txt; the last piece of a
\* file name is its suffix.
Tokens(s) ==
  CASE s = "d1_x" -> <<"d1", "_", "x">>
    [] s = "a.txt" -> <<"a", ".txt">>
    [] s = "x_a.txt" -> <<"x", "_", "a", ".txt">>
    [] s = "a.pdf" -> <<"a", ".pdf">>
    [] OTHER -> <<s>>

\* Document ids and file names beyond those of the plain uploads: an id that
\* contains an underscore, a name that contains one, a name ending in .pdf.
AllDocIds == DocIds \cup {"d1_x"}
AllFilenames == Filenames \cup {"x_a.txt", "a.pdf"}

\* self.upload_dir / f"{document_id}_{upload.filename or 'document'}"
TargetPath(document_id, filename) ==
  Tokens(document_id) \o <<"_">> \o Tokens(filename)

Paths == {TargetPath(d, f) : d \in AllDocIds, f \in AllFilenames}

\* ------------------------------------------------------------ _extract_text
PdfType == "application/pdf"
DocxType == "application/vnd.openxmlformats-officedocument.wordprocessingml.document"
TextType == "text/plain"

\* path.suffix.lower()
Suffix(filename) == Tokens(filename)[Len(Tokens(filename))]

\* "pdf" in content_type / "wordprocessingml" in content_type
DeclaresPdf(content_type) == content_type = PdfType
DeclaresDocx(content_type) == content_type = DocxType

\* The extractor _extract_text calls.
Extractor(content_type, filename) ==
  IF DeclaresPdf(content_type) \/ Suffix(filename) = ".pdf" THEN "pdf"
  ELSE IF DeclaresDocx(content_type) \/ Suffix(filename) = ".docx" THEN "docx"
  ELSE "text"

\* An upload's declared content type with the format its bytes are in.
FileKinds == {<<PdfType, "pdf">>, <<DocxType, "docx">>, <<TextType, "text">>}
PlainKinds == {<<TextType, "text">>}

\* PdfReader(path) and Document(path) raise on bytes of another format;
\* read_text(errors="ignore") never raises.
ExtractRaises(extractor, format) == extractor # "text" /\ extractor # format

\* The embedder: deterministic, and not injective (texts 1 and 3 collide).
Embed(t) == (t * t) % 4

\* Squared L2 distance, the score of the flat index.
Dist(v, w) == (v - w) * (v - w)

\* ------------------------------------------------- the FAISS store's calls
\* Metadata list of ingest_document: one entry per chunk, tagged 0..n-1.
Metadatas(a) ==
  [i \in 1..Len(a.content) |->
     [text |-> a.content[i],
      document_id |-> a.document_id,
      user_id |-> a.user_id,
      chunk_index |-> i - 1,
      title |-> a.title,
      source_path |-> TargetPath(a.document_id, a.filename)]]

\* Mutant: an upload replaces the entries that carry its document id.
AddTextsReplaceMut(st, a) ==
  LET keep == SelectSeq([n \in 1..Len(st.pkl) |-> n],
                        LAMBDA n : st.pkl[n].document_id # a.document_id)
  IN [present |-> TRUE,
      faiss |-> [k \in 1..Len(keep) |-> st.faiss[keep[k]]] \o
                [i \in 1..Len(a.content) |-> Embed(a.content[i])],
      pkl |-> [k \in 1..Len(keep) |-> st.pkl[keep[k]]] \o Metadatas(a)]

\* Mutant: the new entries are put in front of the loaded ones.
AddTextsFrontMut(st, a) ==
  [present |-> TRUE,
   faiss |-> [i \in 1..Len(a.content) |-> Embed(a.content[i])] \o st.faiss,
   pkl |-> Metadatas(a) \o st.pkl]

\* store.add_texts(chunks, metadatas) on a loaded store, FAISS.from_texts
\* when there was none: embed every chunk and append, in input order.
AddTexts(st, a) ==
  [present |-> TRUE,
   faiss |-> st.faiss \o [i \in 1..Len(a.content) |-> Embed(a.content[i])],
   pkl |-> st.pkl \o Metadatas(a)]

\* i ranks before j for query vector qv: smaller distance, earlier entry on ties.
Closer(vecs, qv, i, j) ==
  \/ Dist(vecs[i], qv) < Dist(vecs[j], qv)
  \/ Dist(vecs[i], qv) = Dist(vecs[j], qv) /\ i < j

RECURSIVE NearestRec(_, _, _, _)
NearestRec(vecs, qv, k, acc) ==
  LET taken == {acc[n] : n \in 1..Len(acc)}
      cands == (1..Len(vecs)) \ taken
  IN IF k <= 0 \/ cands = {} THEN acc
     ELSE LET best == CHOOSE i \in cands :
                         \A j \in cands \ {i} : Closer(vecs, qv, i, j)
          IN NearestRec(vecs, qv, k - 1, Append(acc, best))

\* index.search(vector, k): positions of the k nearest vectors, best first
\* (fewer when the index holds fewer than k vectors).
Nearest(vecs, qv, k) == NearestRec(vecs, qv, k, << >>)

\* similarity_search_with_score raises (KeyError) when a hit's position has
\* no document in the loaded mapping.
SearchRaises(st, query, k) ==
  \E n \in 1..Len(Nearest(st.faiss, Embed(query), k)) :
     Nearest(st.faiss, Embed(query), k)[n] > Len(st.pkl)

\* similarity_search_with_score(query, k): the hits as positions, best first.
SimilaritySearch(st, query, k) == Nearest(st.faiss, Embed(query), k)

\* ---------------------------------------------------------- query_documents
\* Mutant: the user_id filter is dropped.
OwnedByMut(doc, user_id) == TRUE

\* doc.metadata.get("user_id") == user_id
OwnedBy(doc, user_id) == doc.user_id = user_id

\* Mutant: the loop never breaks, every owned hit is kept.
RECURSIVE FilterLoopMut(_, _, _, _, _, _)
FilterLoopMut(st, hits, user_id, top_k, n, acc) ==
  IF n > Len(hits) THEN acc
  ELSE IF st.pkl[hits[n]].user_id = user_id
       THEN FilterLoopMut(st, hits, user_id, top_k, n + 1, Append(acc, hits[n]))
       ELSE FilterLoopMut(st, hits, user_id, top_k, n + 1, acc)

\* The filter loop: keep owned hits in rank order, stop once top_k are kept.
RECURSIVE FilterLoop(_, _, _, _, _, _)
FilterLoop(st, hits, user_id, top_k, n, acc) ==
  IF n > Len(hits) THEN acc
  ELSE IF OwnedBy(st.pkl[hits[n]], user_id)
       THEN IF Len(acc) + 1 >= top_k THEN Append(acc, hits[n])
            ELSE FilterLoop(st, hits, user_id, top_k, n + 1, Append(acc, hits[n]))
       ELSE FilterLoop(st, hits, user_id, top_k, n + 1, acc)

\* Positions (in the loaded store) of the entries query_documents returns.
SelectedHits(st, query, user_id, top_k) ==
  IF ~st.present THEN << >>
  ELSE FilterLoop(st, SimilaritySearch(st, query, top_k * OverFetch),
                  user_id, top_k, 1, << >>)

\* The dict built for one kept hit.
FormatHit(st, query, pos) ==
  [text |-> st.pkl[pos].text,
   title |-> st.pkl[pos].title,
   document_id |-> st.pkl[pos].document_id,
   chunk_index |-> st.pkl[pos].chunk_index,
   relevance_score |-> Dist(st.faiss[pos], Embed(query))]

QueryDocuments(st, query, user_id, top_k) ==
  LET sel == SelectedHits(st, query, user_id, top_k)
  IN [n \in 1..Len(sel) |-> FormatHit(st, query, sel[n])]

\* ------------------------------------------------------------- citations
\* Mutant: citations deduplicated by document id alone.
DocKeyMut(chunk) == chunk.document_id

\* doc_key = (chunk["document_id"], chunk["title"])
DocKey(chunk) == <<chunk.document_id, chunk.title>>

RECURSIVE CitationLoop(_, _, _, _)
CitationLoop(cs, n, seen, acc) ==
  IF n > Len(cs) THEN acc
  ELSE IF DocKey(cs[n]) \notin seen
       THEN CitationLoop(cs, n + 1, seen \cup {DocKey(cs[n])},
              Append(acc, [title |-> cs[n].title,
                           document_id |-> cs[n].document_id]))
       ELSE CitationLoop(cs, n + 1, seen, acc)

\* The citations list of generate_answer.
BuildCitations(cs) == CitationLoop(cs, 1, {}, << >>)

\* The same loop as written a second time in generate_answer_stream.
RECURSIVE StreamCitationLoop(_, _, _, _)
StreamCitationLoop(cs, n, seen, acc) ==
  IF n > Len(cs) THEN acc
  ELSE IF DocKey(cs[n]) \notin seen
       THEN StreamCitationLoop(cs, n + 1, seen \cup {DocKey(cs[n])},
              Append(acc, [title |-> cs[n].title,
                           document_id |-> cs[n].document_id]))
       ELSE StreamCitationLoop(cs, n + 1, seen, acc)

\* Mutant: the stream cites every chunk, without the seen_docs check.
StreamBuildCitationsMut(cs) ==
  [n \in 1..Len(cs) |-> [title |-> cs[n].title,
                         document_id |-> cs[n].document_id]]

\* The citations list of generate_answer_stream.
StreamBuildCitations(cs) == StreamCitationLoop(cs, 1, {}, << >>)

\* ------------------------------------------------------------------- Init
Init ==
  /\ uploadDir = [p \in Paths |-> AbsentFile]
  /\ indexFaiss = AbsentFile
  /\ indexPkl = AbsentFile
  /\ loop = NoReq
  /\ pc = [r \in Reqs |-> "idle"]
  /\ args = [r \in Reqs |-> NoArgs]
  /\ store = [r \in Reqs |-> NoStore]
  /\ chunks = [r \in Reqs |-> << >>]
  /\ citations = [r \in Reqs |-> << >>]
  /\ events = [r \in Reqs |-> << >>]
  /\ result = [r \in Reqs |-> NoResult]
  /\ modelCalls = [r \in Reqs |-> 0]
  /\ modelOutcome = [r \in Reqs |-> "none"]
  /\ frags = [r \in Reqs |-> 0]

\* ------------------------------------------------------------ scheduling
\* Mutant: handlers run in worker threads, so one starts at any time.
LoopFreeMut == TRUE

\* An `async def` handler starts when the event-loop thread is not inside
\* another handler; ingest_vault_document and query_vault_documents then keep
\* the thread until they return, because their bodies never await.
LoopFree == loop = NoReq

\* The handler running on the event-loop thread returns or raises.
Release(r) == IF loop = r THEN NoReq ELSE loop

\* An exception leaves the service call: the upload and query handlers turn
\* it into HTTP 500; in the stream it ends the generator with no further event.
Raised(r) ==
  /\ pc' = [pc EXCEPT ![r] = "end"]
  /\ result' = [result EXCEPT ![r] =
       [NoResult EXCEPT !.tag = IF args[r].kind = "stream" THEN "raised"
                                ELSE "http500"]]
  /\ loop' = Release(r)

\* --------------------------------------------------- _load_or_create_index
\* Mutant: a load that finds no index creates an empty one and saves it.
LoadGlobCreateMut(r) ==
  /\ pc[r] = "glob"
  /\ IF indexFaiss.exists \/ indexPkl.exists
     THEN /\ pc' = [pc EXCEPT ![r] = "read_faiss"]
          /\ UNCHANGED <<store, disk>>
     ELSE /\ pc' = [pc EXCEPT ![r] = "loaded"]
          /\ store' = [store EXCEPT ![r] = NoStore]
          /\ indexFaiss' = [exists |-> TRUE, data |-> << >>]
          /\ indexPkl' = [exists |-> TRUE, data |-> << >>]
          /\ UNCHANGED uploadDir
  /\ UNCHANGED <<loop, args, locals>>

\* Mutant: load_local is called whether or not the directory holds a file.
LoadGlobMut(r) ==
  /\ pc[r] = "glob"
  /\ pc' = [pc EXCEPT ![r] = "read_faiss"]
  /\ UNCHANGED <<disk, loop, args, store, locals>>

\* index_files = list(self.index_dir.glob("*")): no file, no store.
LoadGlob(r) ==
  /\ pc[r] = "glob"
  /\ IF indexFaiss.exists \/ indexPkl.exists
     THEN /\ pc' = [pc EXCEPT ![r] = "read_faiss"]
          /\ UNCHANGED store
     ELSE /\ pc' = [pc EXCEPT ![r] = "loaded"]
          /\ store' = [store EXCEPT ![r] = NoStore]
  /\ UNCHANGED <<disk, loop, args, locals>>

\* load_local, first file: the vectors.
LoadFaiss(r) ==
  /\ pc[r] = "read_faiss"
  /\ IF indexFaiss.exists
     THEN /\ pc' = [pc EXCEPT ![r] = "read_pkl"]
          /\ store' = [store EXCEPT ![r].faiss = indexFaiss.data]
          /\ UNCHANGED <<loop, result>>
     ELSE /\ Raised(r)
          /\ UNCHANGED store
  /\ UNCHANGED <<disk, args, chunks, citations, events, model, frags>>

\* load_local, second file: the documents and the position mapping.
LoadPkl(r) ==
  /\ pc[r] = "read_pkl"
  /\ IF indexPkl.exists
     THEN /\ pc' = [pc EXCEPT ![r] = "loaded"]
          /\ store' = [store EXCEPT ![r].pkl = indexPkl.data,
                                    ![r].present = TRUE]
          /\ UNCHANGED <<loop, result>>
     ELSE /\ Raised(r)
          /\ UNCHANGED store
  /\ UNCHANGED <<disk, args, chunks, citations, events, model, frags>>

\* --------------------------------------------------------- ingest_document
\* Mutant: the empty-text checks are missing.
NoExtractableTextMut(c) == FALSE

\* if not raw_text.strip() / if not chunks: a file with no extractable text
\* gives no chunk.
NoExtractableText(c) == c = << >>

\* The handler starts; _persist_upload writes the bytes, _extract_text reads
\* them back, and an empty text is rejected (ValueError -> HTTP 400) before
\* the index is touched.
\* UP: upload forms, C: file contents, F: file names, K: declared content
\* type with the format of the bytes.  A failing extractor is any other
\* exception (HTTP 500).
IngestBeginFile(r, UP, C, F, K) ==
  /\ r \in IngestReqs
  /\ pc[r] = "idle"
  /\ IF r = 1 THEN TRUE ELSE pc[r - 1] # "idle"
  /\ LoopFree
  /\ \E up \in UP, f \in F, c \in C, k \in K :
       /\ args' = [args EXCEPT ![r] =
            [NoArgs EXCEPT !.kind = "ingest", !.user_id = up[1],
                           !.document_id = up[2], !.title = up[3],
                           !.filename = f, !.content_type = k[1],
                           !.content = c]]
       /\ uploadDir' = [uploadDir EXCEPT ![TargetPath(up[2], f)] =
            [exists |-> TRUE, data |-> c]]
       /\ IF ExtractRaises(Extractor(k[1], f), k[2])
          THEN /\ pc' = [pc EXCEPT ![r] = "end"]
               /\ result' = [result EXCEPT ![r] = [NoResult EXCEPT !.tag = "http500"]]
               /\ UNCHANGED loop
          ELSE IF NoExtractableText(c)
          THEN /\ pc' = [pc EXCEPT ![r] = "end"]
               /\ result' = [result EXCEPT ![r] = [NoResult EXCEPT !.tag = "http400"]]
               /\ UNCHANGED loop
          ELSE /\ pc' = [pc EXCEPT ![r] = "glob"]
               /\ loop' = r
               /\ UNCHANGED result
  /\ UNCHANGED <<indexFaiss, indexPkl, store, chunks, citations, events,
                 model, frags>>

\* Plain-text uploads under the one file name of Filenames.
IngestBeginWith(r, UP, C) == IngestBeginFile(r, UP, C, Filenames, PlainKinds)

IngestBegin(r) == IngestBeginWith(r, Uploads, Contents)

\* add_texts / from_texts, then save_local's first write: index.faiss.
IngestSaveFaiss(r) ==
  /\ args[r].kind = "ingest"
  /\ pc[r] = "loaded"
  /\ store' = [store EXCEPT ![r] = AddTexts(store[r], args[r])]
  /\ indexFaiss' = [exists |-> TRUE, data |-> store'[r].faiss]
  /\ pc' = [pc EXCEPT ![r] = "save_pkl"]
  /\ UNCHANGED <<uploadDir, indexPkl, loop, args, locals>>

\* Mutant: the documents are saved as they were loaded, without the new ones.
IngestSavePklMut(r) ==
  /\ args[r].kind = "ingest"
  /\ pc[r] = "save_pkl"
  /\ indexPkl' = [exists |-> TRUE,
                  data |-> SubSeq(store[r].pkl, 1,
                                  Len(store[r].pkl) - Len(args[r].content))]
  /\ result' = [result EXCEPT ![r] =
       [NoResult EXCEPT !.tag = "receipt", !.chunkCount = Len(args[r].content)]]
  /\ pc' = [pc EXCEPT ![r] = "end"]
  /\ loop' = Release(r)
  /\ UNCHANGED <<uploadDir, indexFaiss, args, store, chunks, citations, events,
                 model, frags>>

\* save_local's second write: index.pkl; the receipt is returned.
IngestSavePkl(r) ==
  /\ args[r].kind = "ingest"
  /\ pc[r] = "save_pkl"
  /\ indexPkl' = [exists |-> TRUE, data |-> store[r].pkl]
  /\ result' = [result EXCEPT ![r] =
       [NoResult EXCEPT !.tag = "receipt", !.chunkCount = Len(args[r].content)]]
  /\ pc' = [pc EXCEPT ![r] = "end"]
  /\ loop' = Release(r)
  /\ UNCHANGED <<uploadDir, indexFaiss, args, store, chunks, citations, events,
                 model, frags>>

\* --------------------------------------------------------- generate_answer
NoDocsAnswer == "I don't have any documents in your Knowledge Vault yet."
ModelText == "response.choices[0].message.content"
ErrorText == "Error generating answer"

\* Mutant: the empty-retrieval check is missing.
NoChunksMut(cs) == FALSE

\* if not chunks
NoChunks(cs) == cs = << >>

\* query_vault_documents starts: it takes the event-loop thread.
QueryBeginWith(r, Q, U, K) ==
  /\ r = QueryReq
  /\ pc[r] = "idle"
  /\ LoopFree
  /\ \E q \in Q, u \in U, k \in K :
       args' = [args EXCEPT ![r] =
         [NoArgs EXCEPT !.kind = "query", !.query = q, !.user_id = u, !.top_k = k]]
  /\ pc' = [pc EXCEPT ![r] = "glob"]
  /\ loop' = r
  /\ UNCHANGED <<disk, store, locals>>

QueryBegin(r) == QueryBeginWith(r, Queries, Users, TopKs)

\* query_documents after the load, then the no-documents return or the
\* context and citations loop.
QueryRetrieve(r) ==
  /\ args[r].kind = "query"
  /\ pc[r] = "loaded"
  /\ IF store[r].present
        /\ SearchRaises(store[r], args[r].query, args[r].top_k * OverFetch)
     THEN /\ Raised(r)
          /\ UNCHANGED <<chunks, citations>>
     ELSE LET cs == QueryDocuments(store[r], args[r].query, args[r].user_id,
                                   args[r].top_k)
          IN /\ chunks' = [chunks EXCEPT ![r] = cs]
             /\ IF NoChunks(cs)
                THEN /\ result' = [result EXCEPT ![r] =
                          [NoResult EXCEPT !.tag = "answer",
                                           !.answer = NoDocsAnswer]]
                     /\ pc' = [pc EXCEPT ![r] = "end"]
                     /\ loop' = Release(r)
                     /\ UNCHANGED citations
                ELSE /\ citations' = [citations EXCEPT ![r] = BuildCitations(cs)]
                     /\ pc' = [pc EXCEPT ![r] = "call"]
                     /\ UNCHANGED <<result, loop>>
  /\ UNCHANGED <<disk, args, store, events, model, frags>>

\* Mutant: the except branch returns the message without the retrieval.
ErrorAnswerMut(r) ==
  [NoResult EXCEPT !.tag = "answer", !.answer = ErrorText]

\* What the except branch of generate_answer returns.
ErrorAnswer(r) ==
  [NoResult EXCEPT !.tag = "answer", !.answer = ErrorText,
                   !.chunks = chunks[r], !.citations = citations[r]]

\* client.chat.completions.create(...) returns: the answer dict.
QueryModelOk(r) ==
  /\ args[r].kind = "query"
  /\ pc[r] = "call"
  /\ modelCalls' = [modelCalls EXCEPT ![r] = @ + 1]
  /\ modelOutcome' = [modelOutcome EXCEPT ![r] = "ok"]
  /\ result' = [result EXCEPT ![r] =
       [NoResult EXCEPT !.tag = "answer", !.answer = ModelText,
                        !.chunks = chunks[r], !.citations = citations[r],
                        !.tokens_used = "response.usage.total_tokens"]]
  /\ pc' = [pc EXCEPT ![r] = "end"]
  /\ loop' = Release(r)
  /\ UNCHANGED <<disk, args, store, chunks, citations, events, frags>>

\* client.chat.completions.create(...) returns a response whose usage is
\* None: response.usage.total_tokens raises AttributeError inside the try,
\* and the except branch returns the error answer.
QueryModelOkNoUsage(r) ==
  /\ args[r].kind = "query"
  /\ pc[r] = "call"
  /\ modelCalls' = [modelCalls EXCEPT ![r] = @ + 1]
  /\ modelOutcome' = [modelOutcome EXCEPT ![r] = "ok_no_usage"]
  /\ result' = [result EXCEPT ![r] = ErrorAnswer(r)]
  /\ pc' = [pc EXCEPT ![r] = "end"]
  /\ loop' = Release(r)
  /\ UNCHANGED <<disk, args, store, chunks, citations, events, frags>>

\* client.chat.completions.create(...) raises: except Exception.
QueryModelFail(r) ==
  /\ args[r].kind = "query"
  /\ pc[r] = "call"
  /\ modelCalls' = [modelCalls EXCEPT ![r] = @ + 1]
  /\ modelOutcome' = [modelOutcome EXCEPT ![r] = "raised"]
  /\ result' = [result EXCEPT ![r] = ErrorAnswer(r)]
  /\ pc' = [pc EXCEPT ![r] = "end"]
  /\ loop' = Release(r)
  /\ UNCHANGED <<disk, args, store, chunks, citations, events, frags>>

\* -------------------------------------------------- generate_answer_stream
Event(type) == [type |-> type, citations |-> << >>, token |-> 0]
CitationsEvent(cites) == [Event("citations") EXCEPT !.citations = cites]
TokenEvent(n) == [Event("token") EXCEPT !.token = n]

\* query_vault_documents_stream returns the StreamingResponse at once; the
\* generator then runs in a worker thread.
StreamBeginWith(r, Q, U, K) ==
  /\ r = StreamReq
  /\ pc[r] = "idle"
  /\ LoopFree
  /\ \E q \in Q, u \in U, k \in K :
       args' = [args EXCEPT ![r] =
         [NoArgs EXCEPT !.kind = "stream", !.query = q, !.user_id = u, !.top_k = k]]
  /\ pc' = [pc EXCEPT ![r] = "glob"]
  /\ UNCHANGED <<disk, loop, store, locals>>

StreamBegin(r) == StreamBeginWith(r, Queries, Users, TopKs)

\* query_documents after the load; no chunks: the error event and return.
StreamRetrieve(r) ==
  /\ args[r].kind = "stream"
  /\ pc[r] = "loaded"
  /\ IF store[r].present
        /\ SearchRaises(store[r], args[r].query, args[r].top_k * OverFetch)
     THEN /\ Raised(r)
          /\ UNCHANGED <<chunks, citations, events>>
     ELSE LET cs == QueryDocuments(store[r], args[r].query, args[r].user_id,
                                   args[r].top_k)
          IN /\ chunks' = [chunks EXCEPT ![r] = cs]
             /\ IF NoChunks(cs)
                THEN /\ events' = [events EXCEPT ![r] = Append(@, Event("error"))]
                     /\ pc' = [pc EXCEPT ![r] = "end"]
                     /\ UNCHANGED citations
                ELSE /\ citations' = [citations EXCEPT ![r] = StreamBuildCitations(cs)]
                     /\ pc' = [pc EXCEPT ![r] = "cite"]
                     /\ UNCHANGED events
             /\ UNCHANGED <<result, loop>>
  /\ UNCHANGED <<disk, args, store, model, frags>>

\* Mutant: the citations event is never yielded.
StreamCitationsMut(r) ==
  /\ args[r].kind = "stream"
  /\ pc[r] = "cite"
  /\ pc' = [pc EXCEPT ![r] = "call"]
  /\ UNCHANGED <<disk, loop, args, store, chunks, citations, events, result,
                 model, frags>>

\* yield the citations event ("Send citations first").
StreamCitations(r) ==
  /\ args[r].kind = "stream"
  /\ pc[r] = "cite"
  /\ events' = [events EXCEPT ![r] = Append(@, CitationsEvent(citations[r]))]
  /\ pc' = [pc EXCEPT ![r] = "call"]
  /\ UNCHANGED <<disk, loop, args, store, chunks, citations, result,
                 model, frags>>

\* Mutant: the done event is yielded after the try block, so also after an error.
StreamErrorMut(r) ==
  /\ events' = [events EXCEPT ![r] = Append(Append(@, Event("error")), Event("done"))]
  /\ pc' = [pc EXCEPT ![r] = "end"]

\* except Exception as e: yield the error event; the generator ends.
StreamError(r) ==
  /\ events' = [events EXCEPT ![r] = Append(@, Event("error"))]
  /\ pc' = [pc EXCEPT ![r] = "end"]

\* client.chat.completions.create(..., stream=True) returns the stream.
StreamCallOk(r) ==
  /\ args[r].kind = "stream"
  /\ pc[r] = "call"
  /\ modelCalls' = [modelCalls EXCEPT ![r] = @ + 1]
  /\ modelOutcome' = [modelOutcome EXCEPT ![r] = "ok"]
  /\ pc' = [pc EXCEPT ![r] = "tokens"]
  /\ UNCHANGED <<disk, loop, args, store, chunks, citations, events, result, frags>>

\* client.chat.completions.create(..., stream=True) raises.
StreamCallFail(r) ==
  /\ args[r].kind = "stream"
  /\ pc[r] = "call"
  /\ modelCalls' = [modelCalls EXCEPT ![r] = @ + 1]
  /\ modelOutcome' = [modelOutcome EXCEPT ![r] = "raised"]
  /\ StreamError(r)
  /\ UNCHANGED <<disk, loop, args, store, chunks, citations, result, frags>>

\* for chunk in stream: a fragment with content is yielded as a token event;
\* the generator is then suspended at that yield ("yielded") until the
\* consumer asks for the next event.
StreamToken(r) ==
  /\ args[r].kind = "stream"
  /\ pc[r] \in {"tokens", "yielded"}
  /\ frags[r] < MaxFrags
  /\ frags' = [frags EXCEPT ![r] = @ + 1]
  /\ events' = [events EXCEPT ![r] = Append(@, TokenEvent(frags[r] + 1))]
  /\ pc' = [pc EXCEPT ![r] = "yielded"]
  /\ UNCHANGED <<disk, loop, args, store, chunks, citations, result, model>>

\* for chunk in stream: a fragment whose delta.content is empty yields nothing.
StreamEmptyDelta(r) ==
  /\ args[r].kind = "stream"
  /\ pc[r] \in {"tokens", "yielded"}
  /\ frags[r] < MaxFrags
  /\ frags' = [frags EXCEPT ![r] = @ + 1]
  /\ pc' = [pc EXCEPT ![r] = "tokens"]
  /\ UNCHANGED <<disk, loop, args, store, chunks, citations, events, result,
                 model>>

\* The model stream is exhausted: "Signal completion".
StreamDone(r) ==
  /\ args[r].kind = "stream"
  /\ pc[r] \in {"tokens", "yielded"}
  /\ events' = [events EXCEPT ![r] = Append(@, Event("done"))]
  /\ pc' = [pc EXCEPT ![r] = "end"]
  /\ UNCHANGED <<disk, loop, args, store, chunks, citations, result, model, frags>>

\* Reading the model stream raises.
StreamReadFail(r) ==
  /\ args[r].kind = "stream"
  /\ pc[r] \in {"tokens", "yielded"}
  /\ StreamError(r)
  /\ modelOutcome' = [modelOutcome EXCEPT ![r] = "raised"]
  /\ UNCHANGED <<disk, loop, args, store, chunks, citations, result, modelCalls, frags>>

\* Mutant: the handler is `except BaseException`, so the close is answered
\* with an error event.
StreamCloseMut(r) ==
  /\ args[r].kind = "stream"
  /\ pc[r] \in {"call", "yielded"}
  /\ events' = [events EXCEPT ![r] = Append(@, Event("error"))]
  /\ pc' = [pc EXCEPT ![r] = "closed"]
  /\ UNCHANGED <<disk, loop, args, store, chunks, citations, result, model, frags>>

\* The consumer disconnects and the generator is closed: GeneratorExit is
\* raised at the yield it is suspended at (the citations yield or a token
\* yield).  `except Exception` does not catch it, no finally block runs, and
\* the generator ends; `client` and `stream` are locals of the ended frame.
StreamClose(r) ==
  /\ args[r].kind = "stream"
  /\ pc[r] \in {"call", "yielded"}
  /\ pc' = [pc EXCEPT ![r] = "closed"]
  /\ UNCHANGED <<disk, loop, args, store, chunks, citations, events, result,
                 model, frags>>

\* ------------------------------------------------------------------- Next
Load(r) == LoadGlob(r) \/ LoadFaiss(r) \/ LoadPkl(r)

\* The handlers that run on the event-loop thread: uploads and batched
\* queries, over the full input domains.
Next ==
  \E r \in Reqs :
    \/ Load(r)
    \/ IngestBegin(r) \/ IngestSaveFaiss(r) \/ IngestSavePkl(r)
    \/ QueryBegin(r) \/ QueryRetrieve(r) \/ QueryModelOk(r) \/ QueryModelFail(r)

Spec == Init /\ [][Next]_vars

\* Uploads on the event-loop thread together with a streamed query in a
\* worker thread; the uploads are two users' documents.
StreamUploads == {<<"u1", "d1", "t1">>, <<"u2", "d2", "t2">>}
StreamContents == {<<1>>, <<2, 3>>}
StreamQueries == {1}

NextThreads ==
  \E r \in Reqs :
    \/ Load(r)
    \/ IngestBeginWith(r, StreamUploads, StreamContents)
    \/ IngestSaveFaiss(r) \/ IngestSavePkl(r)
    \/ StreamBeginWith(r, StreamQueries, Users, TopKs)
    \/ StreamRetrieve(r) \/ StreamCitations(r)
    \/ StreamCallOk(r) \/ StreamCallFail(r)
    \/ StreamToken(r) \/ StreamEmptyDelta(r) \/ StreamDone(r) \/ StreamReadFail(r)
    \/ StreamClose(r)

SpecThreads == Init /\ [][NextThreads]_vars

\* ------------------------------------------------- preview_vault_document
\* The index file as an absolute path, a file outside the upload directory.
IndexFaissPath == <<"/", "index_dir", "/", "index", ".faiss">>

\* The filePath query parameter (<< >>: not given): a name relative to the
\* upload directory or an absolute path.  The filename parameter ("-": not
\* given).
PreviewFilePaths == {<< >>, TargetPath("d1", "a.txt"), IndexFaissPath}
PreviewFilenames == {"-", "a.txt"}

\* file_path.exists() and the file's content, for a resolved path: a relative
\* path is joined to upload_dir, an absolute one is taken as it is.
FileAt(p) ==
  IF p \in Paths THEN uploadDir[p]
  ELSE IF p = IndexFaissPath THEN indexFaiss
  ELSE AbsentFile

\* upload_dir.glob(f"{document_id}_*")
GlobMatches(document_id, p) ==
  LET prefix == Tokens(document_id) \o <<"_">>
  IN /\ Len(p) > Len(prefix)
     /\ SubSeq(p, 1, Len(prefix)) = prefix

\* _extract_text(file_path, None): no content type, the suffix decides.
ExtractorOfPath(p) ==
  IF p[Len(p)] = ".pdf" THEN "pdf"
  ELSE IF p[Len(p)] = ".docx" THEN "docx"
  ELSE "text"

PreviewPlaceholder == <<"(Document content is empty or could not be extracted)">>

\* The handler as one step on the event-loop thread: the stored filePath if
\* it exists, else the file named by document id and filename, else any one
\* file the glob matches (matching_files[0], in directory order); HTTP 404
\* when none is found, HTTP 500 when the extractor raises.  user_id is only
\* logged.  The stored files are plain text.
Preview(r) ==
  /\ r = QueryReq
  /\ pc[r] = "idle"
  /\ LoopFree
  /\ \E d \in AllDocIds, u \in Users, fp \in PreviewFilePaths,
        fn \in PreviewFilenames :
       LET byPath == IF fp # << >> /\ FileAt(fp).exists THEN {fp} ELSE {}
           byName == IF byPath = {} /\ fn # "-" /\ FileAt(TargetPath(d, fn)).exists
                     THEN {TargetPath(d, fn)} ELSE {}
           byGlob == IF byPath = {} /\ byName = {}
                     THEN {p \in Paths : uploadDir[p].exists /\ GlobMatches(d, p)}
                     ELSE {}
           found == byPath \cup byName \cup byGlob
       IN /\ args' = [args EXCEPT ![r] =
               [NoArgs EXCEPT !.kind = "preview", !.document_id = d,
                              !.user_id = u, !.filename = fn, !.filePath = fp]]
          /\ IF found = {}
             THEN result' = [result EXCEPT ![r] = [NoResult EXCEPT !.tag = "http404"]]
             ELSE \E p \in found :
                    IF ExtractRaises(ExtractorOfPath(p), "text")
                    THEN result' = [result EXCEPT ![r] =
                           [NoResult EXCEPT !.tag = "http500"]]
                    ELSE result' = [result EXCEPT ![r] =
                           [NoResult EXCEPT !.tag = "preview", !.path = p,
                              !.content = IF FileAt(p).data = << >>
                                          THEN PreviewPlaceholder
                                          ELSE FileAt(p).data]]
  /\ pc' = [pc EXCEPT ![r] = "end"]
  /\ UNCHANGED <<disk, loop, store, chunks, citations, events, model, frags>>

\* Uploads of two users' documents, one id a prefix of the other, and one
\* preview request.
PreviewForms == {<<"u1", "d1", "t1">>, <<"u2", "d1_x", "t2">>}
PreviewContents == {<< >>, <<1>>}

NextPreview ==
  \E r \in Reqs :
    \/ IngestBeginFile(r, PreviewForms, PreviewContents, AllFilenames, PlainKinds)
    \/ Load(r)
    \/ IngestSaveFaiss(r) \/ IngestSavePkl(r)
    \/ Preview(r)

SpecPreview == Init /\ [][NextPreview]_vars

\* Uploads alone, over document ids and file names that contain the
\* separator, three declared content types and empty files.
UploadForms == {<<"u1", "d1", "t1">>, <<"u1", "d1_x", "t1">>}
UploadContents == {<< >>, <<1>>, <<2>>}

NextUploads ==
  \E r \in IngestReqs :
    \/ IngestBeginFile(r, UploadForms, UploadContents, AllFilenames, FileKinds)
    \/ Load(r)
    \/ IngestSaveFaiss(r) \/ IngestSavePkl(r)

SpecUploads == Init /\ [][NextUploads]_vars

\* ----------------------------------------------------------------- faults
\* save_local raises at its second write (open(index.pkl, "wb") / pickle.dump
\* fails): ingest_document has no handler, the upload handler answers
\* HTTP 500.  index.faiss was already rewritten by the first write.
IngestSavePklFail(r) ==
  /\ args[r].kind = "ingest"
  /\ pc[r] = "save_pkl"
  /\ Raised(r)
  /\ UNCHANGED <<disk, args, store, chunks, citations, events, model, frags>>

\* similarity_search_with_score raises while embedding the query or
\* searching: query_documents has no handler and is called outside the try
\* blocks of generate_answer and generate_answer_stream.
EmbedFail(r) ==
  /\ args[r].kind \in {"query", "stream"}
  /\ pc[r] = "loaded"
  /\ store[r].present
  /\ Raised(r)
  /\ UNCHANGED <<disk, args, store, chunks, citations, events, model, frags>>

\* The service starts on an index directory that an earlier run left behind:
\* the snapshot of one ingested one-chunk document.
SeedUpload ==
  [NoArgs EXCEPT !.kind = "ingest", !.user_id = "u1", !.document_id = "d1",
                 !.title = "t1", !.filename = "a.txt", !.content = <<1>>]

InitFaults ==
  /\ uploadDir = [p \in Paths |-> AbsentFile]
  /\ indexFaiss = [exists |-> TRUE, data |-> AddTexts(NoStore, SeedUpload).faiss]
  /\ indexPkl = [exists |-> TRUE, data |-> AddTexts(NoStore, SeedUpload).pkl]
  /\ loop = NoReq
  /\ pc = [r \in Reqs |-> "idle"]
  /\ args = [r \in Reqs |-> NoArgs]
  /\ store = [r \in Reqs |-> NoStore]
  /\ chunks = [r \in Reqs |-> << >>]
  /\ citations = [r \in Reqs |-> << >>]
  /\ events = [r \in Reqs |-> << >>]
  /\ result = [r \in Reqs |-> NoResult]
  /\ modelCalls = [r \in Reqs |-> 0]
  /\ modelOutcome = [r \in Reqs |-> "none"]
  /\ frags = [r \in Reqs |-> 0]

\* Uploads whose save may fail and one query, batched or streamed, whose
\* retrieval may fail.
NextFaults ==
  \E r \in Reqs :
    \/ Load(r)
    \/ IngestBeginWith(r, StreamUploads, StreamContents)
    \/ IngestSaveFaiss(r) \/ IngestSavePkl(r) \/ IngestSavePklFail(r)
    \/ pc[StreamReq] = "idle" /\ QueryBeginWith(r, StreamQueries, Users, TopKs)
    \/ QueryRetrieve(r) \/ QueryModelOk(r) \/ QueryModelFail(r)
    \/ pc[QueryReq] = "idle" /\ StreamBeginWith(r, StreamQueries, Users, TopKs)
    \/ StreamRetrieve(r) \/ StreamCitations(r)
    \/ StreamCallOk(r) \/ StreamCallFail(r)
    \/ StreamToken(r) \/ StreamEmptyDelta(r) \/ StreamDone(r) \/ StreamReadFail(r)
    \/ EmbedFail(r)

SpecFaults == InitFaults /\ [][NextFaults]_vars

\* The same, with the progress the runtime gives: the event-loop thread and
\* the worker thread keep running, and every blocking call (file read or
\* write, embedding, model call, read of the model stream) returns or raises.
\* The retrieval step of a query is enabled exactly while the query stands at
\* "loaded", so its weak fairness is stated as: no query stays there forever.
FairSteps ==
  \E r \in Reqs :
    \/ Load(r)
    \/ IngestBeginWith(r, StreamUploads, StreamContents)
    \/ IngestSaveFaiss(r) \/ IngestSavePkl(r) \/ IngestSavePklFail(r)
    \/ QueryModelOk(r) \/ QueryModelFail(r)
    \/ StreamCitations(r)
    \/ StreamCallOk(r) \/ StreamCallFail(r)
    \/ StreamToken(r) \/ StreamEmptyDelta(r) \/ StreamDone(r) \/ StreamReadFail(r)

SpecFaultsFair ==
  /\ SpecFaults
  /\ WF_vars(FairSteps)
  /\ \A r \in {QueryReq, StreamReq} : []<>(pc[r] # "loaded")

\* Uploads with a batched query and, once it has been answered, the same
\* question from the same user as a streamed query on the same index
\* directory: the stream may be closed by its consumer, retrieval may fail,
\* and the model may answer without usage metadata.
ModesContents == {<<2, 3>>}

NextModes ==
  \E r \in Reqs :
    \/ Load(r)
    \/ IngestBeginWith(r, StreamUploads, ModesContents)
    \/ IngestSaveFaiss(r) \/ IngestSavePkl(r)
    \/ QueryBeginWith(r, StreamQueries, Users, TopKs)
    \/ QueryRetrieve(r) \/ QueryModelOk(r) \/ QueryModelFail(r)
    \/ QueryModelOkNoUsage(r)
    \/ /\ pc[QueryReq] = "end"
       /\ StreamBeginWith(r, {args[QueryReq].query}, {args[QueryReq].user_id},
                           {args[QueryReq].top_k})
    \/ StreamRetrieve(r) \/ StreamCitations(r)
    \/ StreamCallOk(r) \/ StreamCallFail(r)
    \/ StreamToken(r) \/ StreamEmptyDelta(r) \/ StreamDone(r) \/ StreamReadFail(r)
    \/ StreamClose(r)
    \/ EmbedFail(r)

SpecModes == Init /\ [][NextModes]_vars

\* =================================================================== claims
\* query_documents has returned in request r (a batched or a streamed query).
Retrieved(r) ==
  /\ args[r].kind \in {"query", "stream"}
  /\ pc[r] \in {"cite", "call", "tokens", "yielded", "closed", "end"}
  /\ result[r].tag \notin {"raised", "http500"}

\* The generator of stream r ran to its end without raising.
StreamCompleted(r) ==
  /\ args[r].kind = "stream"
  /\ pc[r] = "end"
  /\ result[r].tag # "raised"

Count(evs, type) == Cardinality({n \in 1..Len(evs) : evs[n].type = type})
Types(evs) == [n \in 1..Len(evs) |-> evs[n].type]
Owned(st, user_id) == {n \in 1..Len(st.pkl) : st.pkl[n].user_id = user_id}

RECURSIVE SumCounts(_)
SumCounts(S) ==
  IF S = {} THEN 0
  ELSE LET r == CHOOSE x \in S : TRUE
       IN result[r].chunkCount + SumCounts(S \ {r})

\* C1: every chunk that query_documents returns for user A is the formatted
\* form of an index entry whose metadata user_id is A, and the chunks and
\* citations of the answer are taken from those chunks only.
C1_TenantIsolation ==
  \A r \in Reqs :
    Retrieved(r) =>
      LET a == args[r]
          sel == SelectedHits(store[r], a.query, a.user_id, a.top_k)
      IN /\ Len(chunks[r]) = Len(sel)
         /\ \A n \in 1..Len(sel) :
              /\ sel[n] \in 1..Len(store[r].pkl)
              /\ store[r].pkl[sel[n]].user_id = a.user_id
              /\ chunks[r][n] = FormatHit(store[r], a.query, sel[n])
         /\ result[r].chunks \in {<< >>, chunks[r]}
         /\ \A i \in 1..Len(citations[r]) :
              \E n \in 1..Len(sel) :
                /\ store[r].pkl[sel[n]].document_id = citations[r][i].document_id
                /\ store[r].pkl[sel[n]].title = citations[r][i].title

\* C1 witness: a chunk was returned although the best raw hit belongs to
\* another user.
C1_Witness ==
  \E r \in Reqs :
    /\ Retrieved(r)
    /\ chunks[r] # << >>
    /\ store[r].pkl[SimilaritySearch(store[r], args[r].query,
                      args[r].top_k * OverFetch)[1]].user_id # args[r].user_id

\* An ingestion is between the start of its load and the end of its save.
InFlight(r) ==
  /\ args[r].kind = "ingest"
  /\ pc[r] \in {"glob", "read_faiss", "read_pkl", "loaded", "save_pkl"}

Receipted == {r \in IngestReqs : result[r].tag = "receipt"}

\* The entries of ingestion r stand in the persisted index as one block.
Persisted(r) ==
  \E off \in 0..Len(indexPkl.data) :
    /\ off + Len(args[r].content) <= Len(indexPkl.data)
    /\ off + Len(args[r].content) <= Len(indexFaiss.data)
    /\ \A i \in 1..Len(args[r].content) :
         /\ indexPkl.data[off + i] = Metadatas(args[r])[i]
         /\ indexFaiss.data[off + i] = Embed(args[r].content[i])

\* C2: no two ingestions are between load and save at the same time, and
\* once no ingestion is in flight the persisted index holds every chunk of
\* every ingestion that returned a receipt.
C2_IngestSerialized ==
  /\ \A r1, r2 \in IngestReqs : r1 # r2 => ~(InFlight(r1) /\ InFlight(r2))
  /\ (\A r \in IngestReqs : ~InFlight(r)) =>
        /\ Len(indexPkl.data) = SumCounts(Receipted)
        /\ Len(indexFaiss.data) = SumCounts(Receipted)
        /\ \A r \in Receipted : Persisted(r)

\* C2 witness: two ingestions returned their receipts.
C2_Witness ==
  /\ Cardinality(Receipted) >= 2
  /\ Len(indexPkl.data) >= 2

\* C3: the index a query loaded is a complete snapshot: as many documents
\* as vectors, and no load fails on a half-present snapshot.
C3_NoPartialSnapshot ==
  \A r \in Reqs :
    args[r].kind \in {"query", "stream"} =>
      /\ result[r].tag # "raised"
      /\ (pc[r] \notin {"idle", "glob", "read_faiss", "read_pkl"}
            => Len(store[r].faiss) = Len(store[r].pkl))

\* C4: a completed stream whose retrieval found chunks holds exactly one
\* citations event, placed before every token event, and exactly one
\* terminal event (done or error), placed last.
C4_StreamingOrder ==
  \A r \in Reqs :
    (StreamCompleted(r) /\ chunks[r] # << >>) =>
      LET evs == events[r]
      IN /\ Count(evs, "citations") = 1
         /\ evs[1] = CitationsEvent(citations[r])
         /\ \A n \in 1..Len(evs) :
              evs[n].type = "token" =>
                \E m \in 1..(n - 1) : evs[m].type = "citations"
         /\ Count(evs, "done") + Count(evs, "error") = 1
         /\ evs[Len(evs)].type \in {"done", "error"}

\* C4 witness: a stream that delivered citations, a token and done.
C4_Witness ==
  \E r \in Reqs :
    /\ StreamCompleted(r)
    /\ Len(events[r]) >= 3
    /\ Types(events[r])[1] = "citations"
    /\ Types(events[r])[2] = "token"
    /\ Types(events[r])[Len(events[r])] = "done"

\* C5: an error event is the last event of its stream and the only error
\* event, no done event stands in that stream; a stream whose retrieval found
\* nothing is the single error event, a stream whose model call failed ends
\* with the error event, and its token events are in generation order.
C5_ErrorTerminates ==
  \A r \in Reqs :
    args[r].kind = "stream" =>
      LET evs == events[r]
      IN /\ \A n \in 1..Len(evs) :
              evs[n].type = "error" =>
                /\ n = Len(evs)
                /\ pc[r] = "end"
                /\ Count(evs, "error") = 1
                /\ Count(evs, "done") = 0
         /\ (StreamCompleted(r) /\ chunks[r] = << >>) => Types(evs) = <<"error">>
         /\ modelOutcome[r] = "raised" =>
              /\ pc[r] = "end"
              /\ evs[Len(evs)].type = "error"
         /\ \A i, j \in 1..Len(evs) :
              (i < j /\ evs[i].type = "token" /\ evs[j].type = "token")
                => evs[i].token < evs[j].token

\* C5 witness: the model stream failed after a token had been delivered.
C5_Witness ==
  \E r \in Reqs :
    /\ modelOutcome[r] = "raised"
    /\ Types(events[r]) = <<"citations", "token", "error">>

\* C6: a stream is at or past its model call only with chunks retrieved and
\* the citations event emitted exactly once, as its first event; at most one
\* model call is issued.
C6_CitationsBeforeModelCall ==
  \A r \in Reqs :
    args[r].kind = "stream" =>
      /\ modelCalls[r] <= 1
      /\ (pc[r] = "call" \/ modelCalls[r] > 0) =>
            /\ chunks[r] # << >>
            /\ Count(events[r], "citations") = 1
            /\ events[r][1].type = "citations"
      /\ (Retrieved(r) /\ chunks[r] = << >>) => modelCalls[r] = 0

\* C6 witness: a model call was issued in a stream.
C6_Witness ==
  \E r \in Reqs :
    /\ args[r].kind = "stream"
    /\ modelCalls[r] = 1
    /\ pc[r] = "tokens"

\* C7: a batched query whose retrieval found nothing returns the fixed
\* no-documents answer with empty chunks and citations and calls no model.
C7_NoDocumentsAnswer ==
  \A r \in Reqs :
    args[r].kind = "query" =>
      /\ (pc[r] = "end" /\ result[r].tag = "answer" /\ chunks[r] = << >>) =>
            /\ result[r].answer = NoDocsAnswer
            /\ result[r].chunks = << >>
            /\ result[r].citations = << >>
            /\ modelCalls[r] = 0
      /\ (Retrieved(r) /\ chunks[r] = << >>) => pc[r] = "end"
      /\ modelCalls[r] > 0 => chunks[r] # << >>

\* C7 witness: u2 asked while the index held entries of u1 only.
C7_Witness ==
  \E r \in Reqs :
    /\ args[r].kind = "query"
    /\ args[r].user_id = "u2"
    /\ pc[r] = "end"
    /\ result[r].answer = NoDocsAnswer
    /\ store[r].pkl # << >>
    /\ \A n \in 1..Len(store[r].pkl) : store[r].pkl[n].user_id = "u1"

\* C8: query_documents returns no chunk only when the loaded index holds no
\* entry of the asking user.
C8_EmptyOnlyWhenNothingOwned ==
  \A r \in Reqs :
    (Retrieved(r) /\ chunks[r] = << >>) => Owned(store[r], args[r].user_id) = {}

C10_ModelFailureKeepsRetrieval ==
  \A r \in Reqs :
    (args[r].kind = "query" /\ modelOutcome[r] = "raised") =>
      /\ pc[r] = "end"
      /\ result[r].tag = "answer"
      /\ result[r].answer = ErrorText
      /\ result[r].chunks # << >>
      /\ result[r].chunks = QueryDocuments(store[r], args[r].query,
                                           args[r].user_id, args[r].top_k)
      /\ result[r].citations = BuildCitations(result[r].chunks)

\* C10 witness: a model call failed after two chunks had been retrieved.
C10_Witness ==
  \E r \in Reqs :
    /\ args[r].kind = "query"
    /\ modelOutcome[r] = "raised"
    /\ Len(result[r].chunks) = 2

\* C11: every query that ended gave a defined response: a batched query
\* returned an answer (it did not raise to the caller), a streamed query
\* ended its event sequence with a done or an error event.
C11_QueryFailureSurfaced ==
  \A r \in Reqs :
    pc[r] = "end" =>
      /\ args[r].kind = "query" => result[r].tag = "answer"
      /\ args[r].kind = "stream" =>
           /\ events[r] # << >>
           /\ events[r][Len(events[r])].type \in {"done", "error"}

\* C12: an upload with no extractable text is answered with the
\* empty-document error (ValueError -> HTTP 400) in the step that starts it:
\* it loads no index, holds no store, and index.faiss and index.pkl are the
\* files they were before the attempt.
C12_EmptyDocumentRejected ==
  /\ [](\A r \in IngestReqs :
          (args[r].kind = "ingest" /\ args[r].content = << >>) =>
             /\ pc[r] = "end"
             /\ result[r].tag = "http400"
             /\ store[r] = NoStore)
  /\ [][\A r \in IngestReqs :
          (pc[r] = "idle" /\ args'[r].kind = "ingest" /\ args'[r].content = << >>)
             => UNCHANGED <<indexFaiss, indexPkl>>]_vars

\* C12 witness: an empty upload was rejected while the index held entries.
C12_Witness ==
  \E r \in IngestReqs :
    /\ args[r].kind = "ingest"
    /\ args[r].content = << >>
    /\ result[r].tag = "http400"
    /\ indexPkl.data # << >>

\* C13: once an ingestion has returned its receipt, the snapshot on disk
\* holds one entry for each of its chunkCount chunks, as one block of
\* positions: the vector of chunk i with the text of chunk i, tagged with the
\* document_id, the user_id and chunk_index i (0-based).
C13_ReceiptMeansPersisted ==
  \A r \in IngestReqs :
    result[r].tag = "receipt" =>
      /\ result[r].chunkCount = Len(args[r].content)
      /\ indexFaiss.exists /\ indexPkl.exists
      /\ \E off \in 0..Len(indexPkl.data) :
           \A i \in 1..result[r].chunkCount :
             /\ off + i <= Len(indexPkl.data)
             /\ off + i <= Len(indexFaiss.data)
             /\ indexFaiss.data[off + i] = Embed(args[r].content[i])
             /\ indexPkl.data[off + i].text = args[r].content[i]
             /\ indexPkl.data[off + i].document_id = args[r].document_id
             /\ indexPkl.data[off + i].user_id = args[r].user_id
             /\ indexPkl.data[off + i].chunk_index = i - 1

\* C14: a step in which the save of an ingestion fails returns no receipt
\* (the call fails) and leaves on disk the snapshot the ingestion had loaded:
\* index.faiss and index.pkl without any entry of the failed document.
C14_FailedSaveLeavesSnapshot ==
  [][\A r \in IngestReqs :
       (pc[r] = "save_pkl" /\ pc'[r] = "end" /\ result'[r].tag # "receipt") =>
          LET n == Len(args[r].content)
          IN /\ result'[r].tag = "http500"
             /\ indexFaiss'.data = SubSeq(store[r].faiss, 1, Len(store[r].faiss) - n)
             /\ indexPkl'.data = SubSeq(store[r].pkl, 1, Len(store[r].pkl) - n)]_vars

OwnedRanks(r) ==
  LET hits == SimilaritySearch(store[r], args[r].query, args[r].top_k * OverFetch)
  IN {n \in 1..Len(hits) : store[r].pkl[hits[n]].user_id = args[r].user_id}

\* C17: query_documents returns min(top_k, owned candidates) results; its
\* i-th result is the i-th best-ranked owned candidate of the search over
\* top_k * 3 entries, so none is skipped and none swapped, and the scores
\* are in rank order (best first).
C17_TopKInRankOrder ==
  \A r \in Reqs :
    (Retrieved(r) /\ store[r].present) =>
      LET a == args[r]
          hits == SimilaritySearch(store[r], a.query, a.top_k * OverFetch)
          owned == OwnedRanks(r)
          cs == chunks[r]
      IN /\ Len(cs) <= a.top_k
         /\ Len(cs) = IF Cardinality(owned) < a.top_k THEN Cardinality(owned)
                      ELSE a.top_k
         /\ \A i \in 1..Len(cs) :
              \E n \in owned :
                /\ Cardinality({m \in owned : m <= n}) = i
                /\ cs[i] = FormatHit(store[r], a.query, hits[n])
         /\ \A i \in 1..(Len(cs) - 1) :
              cs[i].relevance_score <= cs[i + 1].relevance_score

\* C17 witness: more owned candidates than top_k, and the best candidate of
\* all belongs to another user.
C17_Witness ==
  \E r \in Reqs :
    /\ Retrieved(r)
    /\ store[r].present
    /\ Len(chunks[r]) = args[r].top_k
    /\ Cardinality(OwnedRanks(r)) > args[r].top_k
    /\ 1 \notin OwnedRanks(r)

\* C18: while a batched query waits on its model call, or an ingestion on
\* the embedding of its chunks, an upload that has not been started yet can
\* be started.
C18_BlockedCallDoesNotBlock ==
  \A r \in Reqs :
    ( \/ args[r].kind = "query" /\ pc[r] = "call"
      \/ args[r].kind = "ingest" /\ pc[r] = "loaded" ) =>
        \A r2 \in IngestReqs :
          (pc[r2] = "idle" /\ (r2 = 1 \/ pc[r2 - 1] # "idle"))
            => ENABLED IngestBegin(r2)

C20_NoQueryHangs ==
  /\ (pc[QueryReq] # "idle") ~>
        (pc[QueryReq] = "end" /\ result[QueryReq].tag = "answer")
  /\ (pc[StreamReq] # "idle") ~>
        /\ events[StreamReq] # << >>
        /\ events[StreamReq][Len(events[StreamReq])].type \in {"done", "error"}

\* C21: the extractor is chosen by the declared content type first: an upload
\* that declares the DOCX type is read by the DOCX extractor and one that
\* declares the PDF type by the PDF extractor, whatever the file name ends
\* in; the extension decides only when the type names neither.
C21_DeclaredTypeFirst ==
  \A r \in IngestReqs :
    args[r].kind = "ingest" =>
      /\ DeclaresPdf(args[r].content_type) =>
           Extractor(args[r].content_type, args[r].filename) = "pdf"
      /\ DeclaresDocx(args[r].content_type) =>
           Extractor(args[r].content_type, args[r].filename) = "docx"
      /\ Extractor(args[r].content_type, args[r].filename) = "text" =>
           /\ ~DeclaresPdf(args[r].content_type)
           /\ ~DeclaresDocx(args[r].content_type)
           /\ Suffix(args[r].filename) \notin {".pdf", ".docx"}

\* C22: the query path never writes: every step of a batched or a streamed
\* query, whether it goes on, returns, raises or is the close of the stream
\* by its consumer, leaves the index snapshot and the upload directory as
\* they were.
C22_QueriesLeaveDiskAlone ==
  [][\A r \in {QueryReq, StreamReq} :
       (/\ args'[r].kind \in {"query", "stream"}
        /\ <<pc[r], args[r], store[r], events[r], result[r]>> #
             <<pc'[r], args'[r], store'[r], events'[r], result'[r]>>)
         => UNCHANGED disk]_vars

\* A batched query has failed in retrieval and a streamed one was closed by
\* its consumer, while the index holds entries.
C22_Witness ==
  /\ pc[QueryReq] = "end" /\ result[QueryReq].tag = "http500"
  /\ pc[StreamReq] = "closed"
  /\ indexPkl.exists /\ indexPkl.data # << >>

\* C23: the index is append-only: with uploads and queries one after the
\* other, every write of a snapshot file leaves the entries that were there,
\* in their order, and puts the uploaded document's entries after them.
C23_AppendOnly ==
  [][/\ indexFaiss' # indexFaiss =>
          \E r \in IngestReqs :
            /\ args[r].kind = "ingest"
            /\ indexFaiss'.data =
                 indexFaiss.data \o
                   [i \in 1..Len(args[r].content) |-> Embed(args[r].content[i])]
     /\ indexPkl' # indexPkl =>
          \E r \in IngestReqs :
            /\ args[r].kind = "ingest"
            /\ indexPkl'.data = indexPkl.data \o Metadatas(args[r])]_vars

\* Two uploads have been saved one after the other, the second onto the
\* entries of the first.
C23_Witness ==
  /\ \A r \in IngestReqs : pc[r] = "end" /\ result[r].tag = "receipt"
  /\ indexPkl.exists
  /\ Len(indexPkl.data) = SumCounts(IngestReqs)
  /\ Len(indexPkl.data) > Len(args[MaxIngests].content)

\* Every acknowledged upload of a document id has its first chunk in the
\* index: two uploads of one id leave two entries with the same
\* (document_id, chunk_index).
BothCopiesKept ==
  \A d \in DocIds :
    Cardinality({n \in 1..Len(indexPkl.data) :
                   /\ indexPkl.data[n].document_id = d
                   /\ indexPkl.data[n].chunk_index = 0}) =
    Cardinality({r \in IngestReqs :
                   /\ args[r].kind = "ingest"
                   /\ result[r].tag = "receipt"
                   /\ args[r].document_id = d})

\* C24 as stated: re-ingesting a document id keeps both sets of entries, and
\* the citations list of a query names a document id at most once.
C24_ReingestCitedOnce ==
  /\ BothCopiesKept
  /\ \A q \in {QueryReq, StreamReq} :
       Retrieved(q) =>
         \A d \in DocIds :
           Cardinality({n \in 1..Len(citations[q]) :
                          citations[q][n].document_id = d}) <= 1

\* C24: re-ingesting a document id does not replace or deduplicate: both sets
\* of entries stay in the index, and the citations list of a query names
\* each (document_id, title) pair once, so a document re-ingested under the
\* same title is named once and one re-ingested under another title once
\* per title among the returned chunks.
C24_ReingestKeepsBoth ==
  /\ BothCopiesKept
  /\ \A q \in {QueryReq, StreamReq} :
       Retrieved(q) =>
         \A d \in DocIds :
           Cardinality({n \in 1..Len(citations[q]) :
                          citations[q][n].document_id = d}) =
           Cardinality({chunks[q][n].title :
                          n \in {m \in 1..Len(chunks[q]) :
                                   chunks[q][m].document_id = d}})

\* One query has returned both copies of a re-ingested chunk and cites the
\* document once.
C24_Witness ==
  /\ Retrieved(QueryReq)
  /\ \E n, m \in 1..Len(chunks[QueryReq]) :
       /\ n # m
       /\ chunks[QueryReq][n].document_id = chunks[QueryReq][m].document_id
       /\ chunks[QueryReq][n].chunk_index = chunks[QueryReq][m].chunk_index
       /\ chunks[QueryReq][n].title = chunks[QueryReq][m].title
  /\ Len(citations[QueryReq]) = 1

\* The files of the upload directory that the uploads of document id d wrote.
FilesOf(d) ==
  {p \in Paths :
     /\ uploadDir[p].exists
     /\ \E r \in IngestReqs :
          /\ args[r].kind = "ingest"
          /\ args[r].document_id = d
          /\ p = TargetPath(d, args[r].filename)}

\* C25: two uploads with the same document id write to the same path, the
\* later over the earlier, so the upload directory holds at most one file
\* per document id.
C25_OneFilePerDocument ==
  \A d \in AllDocIds : Cardinality(FilesOf(d)) <= 1

\* C26: when the model call of generate_answer succeeds, one model call was
\* issued and the answer is the model's text with the retrieved chunks and
\* citations; tokens_used is there exactly when the model reported usage, and
\* a response without usage is still a successful answer.
C26_ModelSuccessIsAnswer ==
  \A r \in Reqs :
    (args[r].kind = "query" /\ modelOutcome[r] \in {"ok", "ok_no_usage"}) =>
      /\ modelCalls[r] = 1
      /\ result[r].tag = "answer"
      /\ result[r].answer = ModelText
      /\ result[r].chunks = chunks[r]
      /\ result[r].citations = citations[r]
      /\ result[r].tokens_used # "-" <=> modelOutcome[r] = "ok"

\* C27: the upload paths of different documents never collide: two uploads
\* with different document ids are written to different paths, whatever
\* their file names.
C27_PathsDoNotCollide ==
  \A r1, r2 \in IngestReqs :
    (/\ args[r1].kind = "ingest"
     /\ args[r2].kind = "ingest"
     /\ args[r1].document_id # args[r2].document_id) =>
      TargetPath(args[r1].document_id, args[r1].filename) #
        TargetPath(args[r2].document_id, args[r2].filename)

\* C28: for every entry of the persisted index the file at the entry's
\* source_path exists and holds the content the entry's chunk text was
\* extracted from, also after uploads that were rejected.
C28_SourceMatchesIndex ==
  \A n \in 1..Len(indexPkl.data) :
    LET e == indexPkl.data[n]
        file == uploadDir[e.source_path]
    IN /\ file.exists
       /\ e.chunk_index + 1 <= Len(file.data)
       /\ file.data[e.chunk_index + 1] = e.text

\* C29: the two modes agree on retrieval: for the same loaded index, query,
\* user and top_k, the citations event of the stream carries the citations
\* field of the batched answer, and the stream ends with its no-documents
\* error event exactly when the batched answer is the no-documents answer.
C29_ModesAgree ==
  (/\ Retrieved(QueryReq) /\ pc[QueryReq] = "end"
   /\ Retrieved(StreamReq)
   /\ args[StreamReq].query = args[QueryReq].query
   /\ args[StreamReq].user_id = args[QueryReq].user_id
   /\ args[StreamReq].top_k = args[QueryReq].top_k
   /\ store[StreamReq] = store[QueryReq]) =>
    /\ \A n \in 1..Len(events[StreamReq]) :
         events[StreamReq][n].type = "citations" =>
           events[StreamReq][n].citations = result[QueryReq].citations
    /\ result[QueryReq].answer = NoDocsAnswer <=>
         (pc[StreamReq] = "end" /\ events[StreamReq] = <<Event("error")>>)

\* Both modes have answered from the same loaded index, with citations.
C29_Witness ==
  /\ Retrieved(QueryReq) /\ pc[QueryReq] = "end"
  /\ Retrieved(StreamReq)
  /\ store[StreamReq] = store[QueryReq]
  /\ store[QueryReq].present
  /\ Count(events[StreamReq], "citations") = 1
  /\ Len(chunks[QueryReq]) > Len(result[QueryReq].citations)
  /\ result[QueryReq].citations # << >>

\* C30: the preview respects document and tenant boundaries: the file whose
\* content is returned lies in the upload directory and is the stored upload
\* of the requested document id, ingested by the requesting user.
C30_PreviewRespectsBoundaries ==
  \A r \in Reqs :
    (args[r].kind = "preview" /\ result[r].tag = "preview") =>
      /\ result[r].path \in Paths
      /\ \E i \in IngestReqs :
           /\ args[i].kind = "ingest"
           /\ TargetPath(args[i].document_id, args[i].filename) = result[r].path
           /\ args[i].document_id = args[r].document_id
           /\ args[i].user_id = args[r].user_id
====
